---- MODULE Spec2Model ----
(***************************************************************************)
(* Model of the Christmas-Decorator backend: the /api/decorate endpoint    *)
(* (backend/app/routers/decorator.py, decorate_image) together with the    *)
(* process-wide agent registry it uses (backend/app/services/agents.py).   *)
(*                                                                         *)
(* Every request runs decorate_image once.  A request's steps are the      *)
(* statements of the handler between two calls into the outside world      *)
(* (the filesystem, the upload stream, the model endpoints).  A step that  *)
(* raises runs the handler's except clauses and its finally clause in the  *)
(* same action, as Python does.                                            *)
(*                                                                         *)
(* Texts (verdicts, prompts, error messages, explanations) are sequences   *)
(* of string tokens; an f-string is the concatenation of its parts.        *)
(***************************************************************************)
EXTENDS Integers, Sequences, FiniteSets, TLC

\* Number of requests the outer HTTP layer hands to decorate_image; they are
\* numbered in the order they arrive and run concurrently.
NumRequests == 2

Requests == 1 .. NumRequests

\* Python's None, for Optional locals and arguments.
None == <<"None">>

\* Optional[str] truthiness: None and "" are falsy.
Truthy(s) == s # None /\ s # <<>>

(***************************************************************************)
(* Inputs and answers of the outside world.                                *)
(***************************************************************************)
\* image.filename of the multipart upload: absent, or a name and its suffix.
Filenames == {None, <<"room", ".png">>}

\* The optional form field prompt.
Prompts == {None, <<>>, <<"add a tree">>}

\* Character sequences a validation agent may answer with.
Verdicts ==
    { <<"Y", "E", "S">>,
      <<" ", "n", "o", ",", " ", "d", "a", "r", "k">> }

\* Texts the decoration descriptor agent may answer with.
Plans == { <<"garland on the shelf">> }

\* str(e) of an exception raised by the filesystem, the upload stream or a
\* model endpoint.
ErrorTexts ==
    { <<"connection", "refused">>,
      <<"429", "RESOURCE_EXHAUSTED", "quota">> }

\* A text contains a marker token.
Contains(text, marker) == \E i \in 1 .. Len(text) : text[i] = marker

\* The bytes of the upload of request r.
UploadBytes(r) == <<"bytes-of-upload", ToString(r)>>

\* base64.b64encode(data).decode("utf-8")
B64Encode(data) == <<"base64">> \o data

(***************************************************************************)
(* app/config.py and the path of the temporary file.                       *)
(***************************************************************************)
UPLOAD_DIR == "uploads"

\* Path(filename).suffix
Suffix(filename) == IF Len(filename) > 1 THEN filename[Len(filename)] ELSE ""

\* A name that every request shares.
SharedName(r) == "upload"

\* uuid.uuid4(): a value no other call returns.
Uuid4(r) == "uuid-" \o ToString(r)

\* file_extension, unique_filename and file_path of request r.
UniqueFilePath(r, filename) ==
    LET file_extension == IF Suffix(filename) # "" THEN Suffix(filename) ELSE ".jpg"
    IN  <<UPLOAD_DIR, Uuid4(r), file_extension>>

(***************************************************************************)
(* The agent registry (services/agents.py).                                *)
(***************************************************************************)
ClientKeys == {"text", "vlm", "diffusion"}

AgentKeys == {"validate_image", "validate_text", "decorator_descriptor", "decorator"}

\* _create_agents: the client each agent is bound to.
AgentClient(key) == IF key = "decorator" THEN "diffusion" ELSE "vlm"

VARIABLES
    pc,                       \* where each request is in decorate_image
    image_filename,           \* image.filename
    prompt,                   \* prompt
    file_path,                \* file_path
    agent_service,            \* agent_service: None or "default"
    image_validation_result,  \* image_validation_result
    text_validation_result,   \* text_validation_result
    decoration_plan,          \* decoration_plan
    generation_result,        \* generation_result
    result_image_path,        \* result_image_path
    calls,                    \* the Agent.run calls each request has made, in order
    raised,                   \* the exception that ended the try block, if any
    response,                 \* what the HTTP layer sends back
    files,                    \* the filesystem: the set of <<path, content>> of the files that exist
    default_service,          \* _default_service is not None
    initialized,              \* _default_service._initialized
    clients,                  \* keys of _default_service._clients
    agents,                   \* _default_service._agents, as <<key, client key>> pairs
    instances,                \* the number of AgentService objects constructed
    constructed,              \* the number of client and agent objects constructed
    api_call                  \* the last call of the registry's API and its outcome

reqVars == <<pc, image_filename, prompt, file_path, agent_service,
             image_validation_result, text_validation_result, decoration_plan,
             generation_result, result_image_path, calls, raised, response>>

svcVars == <<default_service, initialized, clients, agents, instances,
             constructed, api_call>>

vars == <<reqVars, files, svcVars>>

\* No exception.
NoException == [kind |-> "none", status |-> 0, text |-> <<>>]

\* fastapi.HTTPException(status_code, detail)
HTTPException(status_code, detail) ==
    [kind |-> "HTTPException", status |-> status_code, text |-> detail]

\* Any other Exception, with its str(e).
Exception(text) == [kind |-> "Exception", status |-> 0, text |-> text]

\* No call of the registry's API yet.
NoCall == [op |-> "none", key |-> "", outcome |-> "", value |-> <<>>, built |-> 0]

\* No response yet.
NoResponse == [status |-> 0, detail |-> <<>>, image_base64 |-> <<>>, explanation |-> <<>>]

\* The error response FastAPI builds from an HTTPException.
ErrorResponse(status_code, detail) ==
    [status |-> status_code, detail |-> detail, image_base64 |-> <<>>, explanation |-> <<>>]

\* DecorateResponse(image_base64, explanation), sent with status 200.
DecorateResponse(image_base64, explanation) ==
    [status |-> 200, detail |-> <<>>, image_base64 |-> image_base64,
     explanation |-> explanation]

Init ==
    /\ pc = [r \in Requests |-> "idle"]
    /\ image_filename = [r \in Requests |-> None]
    /\ prompt = [r \in Requests |-> None]
    /\ file_path = [r \in Requests |-> None]
    /\ agent_service = [r \in Requests |-> None]
    /\ image_validation_result = [r \in Requests |-> None]
    /\ text_validation_result = [r \in Requests |-> None]
    /\ decoration_plan = [r \in Requests |-> None]
    /\ generation_result = [r \in Requests |-> None]
    /\ result_image_path = [r \in Requests |-> None]
    /\ calls = [r \in Requests |-> <<>>]
    /\ raised = [r \in Requests |-> NoException]
    /\ response = [r \in Requests |-> NoResponse]
    /\ files = {}
    /\ default_service = FALSE
    /\ initialized = FALSE
    /\ clients = {}
    /\ agents = {}
    /\ instances = 0
    /\ constructed = 0
    /\ api_call = NoCall

(***************************************************************************)
(* The filesystem.                                                         *)
(***************************************************************************)
\* Path.exists()
Exists(fs, path) == \E f \in fs : f[1] = path

\* open(path, "wb") followed by write(content): creates or truncates the file.
WriteFile(fs, path, content) == {f \in fs : f[1] # path} \cup {<<path, content>>}

\* open(path, "rb").read()
ReadFile(fs, path) == (CHOOSE f \in fs : f[1] = path)[2]

\* Path.unlink()
Unlink(fs, path) == {f \in fs : f[1] # path}

(***************************************************************************)
(* The except and finally clauses of decorate_image.                       *)
(***************************************************************************)
\* A handler that wraps every exception, HTTPException included, as a 500.
ExceptWrapAll(e) ==
    ErrorResponse(500, <<"Failed to decorate image:">> \o e.text)

\* A handler that reports a generic 500 without the error's text.
ExceptDropText(e) ==
    IF e.kind = "HTTPException"
    THEN ErrorResponse(e.status, e.text)
    ELSE ErrorResponse(500, <<"Failed to decorate image">>)

\* except HTTPException: raise / except Exception as e: raise HTTPException(500, ...)
Except(e) ==
    IF e.kind = "HTTPException"
    THEN ErrorResponse(e.status, e.text)
    ELSE ErrorResponse(500, <<"Failed to decorate image:">> \o e.text)

\* A finally clause that leaves the file in place.
FinallyKeepFile(fp, fs) == fs

\* finally: if file_path and file_path.exists(): file_path.unlink()
Finally(fp, fs) ==
    IF fp # None /\ Exists(fs, fp) THEN Unlink(fs, fp) ELSE fs

\* A handler that swallows the exception and lets the failed step run again.
RaiseAndRetry(r, e, fp, fs) ==
    /\ raised' = [raised EXCEPT ![r] = e]
    /\ response' = [response EXCEPT ![r] = Except(e)]
    /\ files' = fs
    /\ pc' = pc

\* Request r leaves the try block by raising e, with file_path fp and the
\* filesystem fs: the except clauses translate e, the finally clause cleans up.
Raise(r, e, fp, fs) ==
    /\ raised' = [raised EXCEPT ![r] = e]
    /\ response' = [response EXCEPT ![r] = Except(e)]
    /\ files' = Finally(fp, fs)
    /\ pc' = [pc EXCEPT ![r] = "done"]

(***************************************************************************)
(* get_agent_service() and AgentService.                                   *)
(***************************************************************************)
\* AgentService._ensure_initialized
EnsureInitializedText == <<"AgentService has not been initialized. Call initialize() first.">>

\* The HTTP layer hands a request to decorate_image.
Arrive(r) ==
    /\ pc[r] = "idle"
    /\ \A q \in Requests : q < r => pc[q] # "idle"
    /\ \E f \in Filenames, p \in Prompts :
        /\ image_filename' = [image_filename EXCEPT ![r] = f]
        /\ prompt' = [prompt EXCEPT ![r] = p]
    /\ pc' = [pc EXCEPT ![r] = "ingest"]
    /\ UNCHANGED <<file_path, agent_service, image_validation_result,
                   text_validation_result, decoration_plan, generation_result,
                   result_image_path, calls, raised, response, files, svcVars>>

\* Step 1 up to open(file_path, "wb"): the filename check, the unique name,
\* the creation of the (still empty) file.
Ingest(r) ==
    /\ pc[r] = "ingest"
    /\ UNCHANGED <<image_filename, prompt, agent_service, image_validation_result,
                   text_validation_result, decoration_plan, generation_result,
                   result_image_path, calls, svcVars>>
    /\ IF ~Truthy(image_filename[r])
       THEN /\ Raise(r, HTTPException(400, <<"No filename provided">>), file_path[r], files)
            /\ UNCHANGED file_path
       ELSE LET fp == UniqueFilePath(r, image_filename[r]) IN
            /\ file_path' = [file_path EXCEPT ![r] = fp]
            /\ \/ /\ files' = WriteFile(files, fp, <<>>)
                  /\ pc' = [pc EXCEPT ![r] = "read"]
                  /\ UNCHANGED <<raised, response>>
               \/ \E t \in ErrorTexts : Raise(r, Exception(t), fp, files)

\* content = await image.read(); buffer.write(content)
ReadUpload(r) ==
    /\ pc[r] = "read"
    /\ UNCHANGED <<image_filename, prompt, file_path, agent_service,
                   image_validation_result, text_validation_result,
                   decoration_plan, generation_result, result_image_path, calls,
                   svcVars>>
    /\ \/ /\ files' = WriteFile(files, file_path[r], UploadBytes(r))
          /\ pc' = [pc EXCEPT ![r] = "get_service"]
          /\ UNCHANGED <<raised, response>>
       \/ \E t \in ErrorTexts : Raise(r, Exception(t), file_path[r], files)

\* Step 2: agent_service = get_agent_service().  The first call constructs the
\* singleton and runs initialize(); _create_clients and _create_agents build
\* external objects and may raise, which leaves the singleton uninitialized.
\* decorate_image reads nothing of an uninitialized registry but its
\* _initialized flag, so a failed initialize() is kept here at its first
\* failure point (nothing constructed yet).
GetAgentService(r) ==
    /\ pc[r] = "get_service"
    /\ UNCHANGED <<image_filename, prompt, file_path, image_validation_result,
                   text_validation_result, decoration_plan, generation_result,
                   result_image_path, calls>>
    /\ IF default_service
       THEN /\ agent_service' = [agent_service EXCEPT ![r] = <<"default">>]
            /\ pc' = [pc EXCEPT ![r] = "validate_image"]
            /\ UNCHANGED <<raised, response, files, svcVars>>
       ELSE /\ default_service' = TRUE
            /\ instances' = instances + 1
            /\ UNCHANGED api_call
            /\ \/ /\ clients' = ClientKeys
                  /\ agents' = {<<k, AgentClient(k)>> : k \in AgentKeys}
                  /\ constructed' = constructed + Cardinality(ClientKeys)
                                                 + Cardinality(AgentKeys)
                  /\ initialized' = TRUE
                  /\ agent_service' = [agent_service EXCEPT ![r] = <<"default">>]
                  /\ pc' = [pc EXCEPT ![r] = "validate_image"]
                  /\ UNCHANGED <<raised, response, files>>
               \/ /\ \E t \in ErrorTexts : Raise(r, Exception(t), file_path[r], files)
                  /\ UNCHANGED <<agent_service, initialized, clients, agents,
                                 constructed>>

\* A get_agent without the _ensure_initialized() call.
GetAgentNeverRaises == FALSE

\* AgentService.get_agent(key), reached through the shortcut properties:
\* _ensure_initialized() raises unless initialize() has completed.
GetAgentRaises == ~initialized

\* The task_input of every Agent.run call of the pipeline: a TextBlock and a
\* MediaBlock whose source is the stored image's path.
AgentCall(key, path) == [agent |-> key, source |-> path]

\* A pipeline that runs the prompt validator whatever the prompt is.
AlwaysValidateText(p) == "validate_text"

\* Step 4's "if prompt:": the step that follows the image validation.
AfterImageValidation(p) == IF Truthy(p) THEN "validate_text" ELSE "plan"

\* Step 3: image_validation_result = agent_service.validate_image_agent.run(...)
\* The check of the verdict that follows the call is commented out.
ValidateImage(r) ==
    /\ pc[r] = "validate_image"
    /\ UNCHANGED <<image_filename, prompt, file_path, agent_service,
                   text_validation_result, decoration_plan, generation_result,
                   result_image_path, svcVars>>
    /\ IF GetAgentRaises
       THEN /\ Raise(r, Exception(EnsureInitializedText), file_path[r], files)
            /\ UNCHANGED <<image_validation_result, calls>>
       ELSE /\ calls' = [calls EXCEPT ![r] =
                            Append(@, AgentCall("validate_image", file_path[r]))]
            /\ \/ /\ \E v \in Verdicts :
                        image_validation_result' =
                            [image_validation_result EXCEPT ![r] = v]
                  /\ pc' = [pc EXCEPT ![r] = AfterImageValidation(prompt[r])]
                  /\ UNCHANGED <<raised, response, files>>
               \/ /\ \E t \in ErrorTexts : Raise(r, Exception(t), file_path[r], files)
                  /\ UNCHANGED image_validation_result

\* Step 4: text_validation_result = agent_service.validate_text_agent.run(...)
\* The check of the verdict that follows the call is commented out.
ValidateText(r) ==
    /\ pc[r] = "validate_text"
    /\ UNCHANGED <<image_filename, prompt, file_path, agent_service,
                   image_validation_result, decoration_plan, generation_result,
                   result_image_path, svcVars>>
    /\ IF GetAgentRaises
       THEN /\ Raise(r, Exception(EnsureInitializedText), file_path[r], files)
            /\ UNCHANGED <<text_validation_result, calls>>
       ELSE /\ calls' = [calls EXCEPT ![r] =
                            Append(@, AgentCall("validate_text", file_path[r]))]
            /\ \/ /\ \E v \in Verdicts :
                        text_validation_result' =
                            [text_validation_result EXCEPT ![r] = v]
                  /\ pc' = [pc EXCEPT ![r] = "plan"]
                  /\ UNCHANGED <<raised, response, files>>
               \/ /\ \E t \in ErrorTexts : Raise(r, Exception(t), file_path[r], files)
                  /\ UNCHANGED text_validation_result

\* Step 5: decoration_plan = agent_service.decorator_descriptor_agent.run(...)
PlanDecoration(r) ==
    /\ pc[r] = "plan"
    /\ UNCHANGED <<image_filename, prompt, file_path, agent_service,
                   image_validation_result, text_validation_result,
                   generation_result, result_image_path, svcVars>>
    /\ IF GetAgentRaises
       THEN /\ Raise(r, Exception(EnsureInitializedText), file_path[r], files)
            /\ UNCHANGED <<decoration_plan, calls>>
       ELSE /\ calls' = [calls EXCEPT ![r] =
                            Append(@, AgentCall("decorator_descriptor", file_path[r]))]
            /\ \/ /\ \E d \in Plans :
                        decoration_plan' = [decoration_plan EXCEPT ![r] = d]
                  /\ pc' = [pc EXCEPT ![r] = "generate"]
                  /\ UNCHANGED <<raised, response, files>>
               \/ /\ \E t \in ErrorTexts : Raise(r, Exception(t), file_path[r], files)
                  /\ UNCHANGED decoration_plan

\* Step 7's explanation f-strings.
Explanation(p, plan, verdict) ==
    (IF Truthy(p) THEN <<"Your Request:">> \o p ELSE <<>>)
        \o <<"Decoration Plan:">> \o plan \o <<"Image Validation:">> \o verdict

\* str(e) of the FileNotFoundError of open(result_image_path, "rb").
FileNotFoundText == <<"No such file or directory">>

\* Steps 6 and 7.  The decorator agent's call is commented out:
\* generation_result is the empty string, which has no content attribute, so
\* the scan of its blocks is skipped; result_image_path falls back to
\* file_path; the response carries the stored file's bytes.
GenerateAndRespond(r) ==
    /\ pc[r] = "generate"
    /\ UNCHANGED <<image_filename, prompt, file_path, agent_service,
                   image_validation_result, text_validation_result,
                   decoration_plan, calls, svcVars>>
    /\ generation_result' = [generation_result EXCEPT ![r] = <<>>]
    /\ result_image_path' = [result_image_path EXCEPT ![r] = file_path[r]]
    /\ IF ~Exists(files, file_path[r])
       THEN Raise(r, Exception(FileNotFoundText), file_path[r], files)
       ELSE \/ /\ response' = [response EXCEPT ![r] =
                      DecorateResponse(
                          B64Encode(ReadFile(files, file_path[r])),
                          Explanation(prompt[r], decoration_plan[r],
                                      image_validation_result[r]))]
               /\ files' = Finally(file_path[r], files)
               /\ pc' = [pc EXCEPT ![r] = "done"]
               /\ UNCHANGED raised
            \/ \E t \in ErrorTexts : Raise(r, Exception(t), file_path[r], files)

Next ==
    \E r \in Requests :
        \/ Arrive(r)
        \/ Ingest(r)
        \/ ReadUpload(r)
        \/ GetAgentService(r)
        \/ ValidateImage(r)
        \/ ValidateText(r)
        \/ PlanDecoration(r)
        \/ GenerateAndRespond(r)

Spec == Init /\ [][Next]_vars

(***************************************************************************)
(* Vocabulary of the properties.                                           *)
(***************************************************************************)
Done(r) == pc[r] = "done"

\* Request r has invoked the agent registered under key.
Called(r, key) == \E i \in 1 .. Len(calls[r]) : calls[r][i].agent = key

\* The number of times request r has invoked the agent registered under key.
CallCount(r, key) == Cardinality({i \in 1 .. Len(calls[r]) : calls[r][i].agent = key})

\* text ends with tail.
EndsWith(text, tail) ==
    /\ Len(tail) <= Len(text)
    /\ SubSeq(text, Len(text) - Len(tail) + 1, Len(text)) = tail

\* text starts with head.
StartsWith(text, head) ==
    /\ Len(head) <= Len(text)
    /\ SubSeq(text, 1, Len(head)) = head

\* sub occurs in text as a contiguous run.
HasSubstring(text, sub) ==
    \E i \in 1 .. Len(text) - Len(sub) + 1 : SubSeq(text, i, i + Len(sub) - 1) = sub

\* The temporary file of request r exists in the uploads directory.
TempFileExists(r) == file_path[r] # None /\ Exists(files, file_path[r])

\* C1: once a request has terminated, the temporary file it created is
\* absent from the uploads directory, whichever way the request ended.
C1_TempFileRemoved == \A r \in Requests : Done(r) => ~TempFileExists(r)

\* C1's case: a request whose file was written ended by an exception raised
\* from an agent call, and the file is gone.
C1_Witness ==
    \E r \in Requests :
        /\ Done(r)
        /\ file_path[r] # None
        /\ Len(calls[r]) > 0
        /\ raised[r].kind = "Exception"
        /\ response[r].status = 500
        /\ ~Exists(files, file_path[r])

\* The error text carries a rate-limit or quota marker.
RateLimited(text) == Contains(text, "RESOURCE_EXHAUSTED") \/ Contains(text, "429")

\* C9: an exception that is neither an HTTPException nor a rate-limit error
\* is reported as a status-500 error whose detail includes the original
\* error text, and the request returns no successful response.
C9_UnexpectedFailureIs500 ==
    \A r \in Requests :
        /\ Done(r) /\ raised[r].kind = "Exception" /\ ~RateLimited(raised[r].text)
            => /\ response[r].status = 500
               /\ EndsWith(response[r].detail, raised[r].text)
               /\ response[r].image_base64 = <<>>
        /\ Done(r) /\ raised[r].kind # "none" => response[r].status # 200

\* C9's case: a request ended by a connection error of the planning agent.
C9_Witness ==
    \E r \in Requests :
        /\ Done(r)
        /\ raised[r] = Exception(<<"connection", "refused">>)
        /\ Called(r, "decorator_descriptor")
        /\ response[r].status = 500

\* C10: the step that finds no filename ends the request with status 400 and
\* changes nothing else: no file is written or deleted, the agent service is
\* neither created nor obtained, no agent is invoked.
C10_NoFilenameRejected ==
    [][\A r \in Requests :
          pc[r] = "ingest" /\ ~Truthy(image_filename[r]) /\ pc'[r] # pc[r]
              => /\ pc'[r] = "done"
                 /\ response'[r].status = 400
                 /\ response'[r].detail = <<"No filename provided">>
                 /\ files' = files
                 /\ svcVars' = svcVars
                 /\ file_path'[r] = None
                 /\ agent_service'[r] = None
                 /\ calls'[r] = <<>>]_vars

\* C10's case: a request without a filename has been rejected while another
\* request's temporary file is in the uploads directory.
C10_Witness ==
    \E r \in Requests :
        /\ Done(r)
        /\ ~Truthy(image_filename[r])
        /\ response[r].status = 400
        /\ files # {}

(***************************************************************************)
(* The validation gate's decision rule, as the specification states it:    *)
(* trim, upper-case, then FAIL on a "NO" prefix or on "NO," or "NO."       *)
(* within the first 10 characters.                                         *)
(***************************************************************************)
LowerCase == <<"a", "b", "c", "d", "e", "f", "g", "h", "i", "j", "k", "l", "m",
               "n", "o", "p", "q", "r", "s", "t", "u", "v", "w", "x", "y", "z">>

UpperCase == <<"A", "B", "C", "D", "E", "F", "G", "H", "I", "J", "K", "L", "M",
               "N", "O", "P", "Q", "R", "S", "T", "U", "V", "W", "X", "Y", "Z">>

\* str.upper() on one character.
UpperChar(c) ==
    IF \E i \in 1 .. Len(LowerCase) : LowerCase[i] = c
    THEN UpperCase[CHOOSE i \in 1 .. Len(LowerCase) : LowerCase[i] = c]
    ELSE c

\* str.upper()
Upper(text) == [i \in 1 .. Len(text) |-> UpperChar(text[i])]

IsSpace(c) == c \in {" ", "\t", "\n"}

\* str.strip()
Strip(text) ==
    LET kept == {i \in 1 .. Len(text) : ~IsSpace(text[i])}
    IN  IF kept = {} THEN <<>>
        ELSE SubSeq(text,
                    CHOOSE i \in kept : \A j \in kept : i <= j,
                    CHOOSE i \in kept : \A j \in kept : j <= i)

\* The first n characters: text[:n]
Prefix(text, n) == SubSeq(text, 1, IF Len(text) < n THEN Len(text) ELSE n)

\* The rule: TRUE when the verdict is FAIL.
VerdictFails(text) ==
    LET normalized == Upper(Strip(text))
    IN  \/ StartsWith(normalized, <<"N", "O">>)
        \/ HasSubstring(Prefix(normalized, 10), <<"N", "O", ",">>)
        \/ HasSubstring(Prefix(normalized, 10), <<"N", "O", ".">>)

\* Request r holds an image verdict that the rule fails.
ImageVerdictFails(r) ==
    image_validation_result[r] # None /\ VerdictFails(image_validation_result[r])

\* Request r holds a prompt verdict that the rule fails.
TextVerdictFails(r) ==
    text_validation_result[r] # None /\ VerdictFails(text_validation_result[r])

\* C2: a request whose image verdict is FAIL ends with status 400, its detail
\* carrying the raw verdict text, and never with a successful response.
\* (Stated for the requests that no endpoint or filesystem error ended, so
\* that what decides it is the handling of the verdict alone.)
C2_ImageFailRejected ==
    \A r \in Requests :
        Done(r) /\ ImageVerdictFails(r) /\ raised[r].kind # "Exception"
            => /\ response[r].status = 400
               /\ EndsWith(response[r].detail, image_validation_result[r])
               /\ response[r].image_base64 = <<>>

\* The agents invoked after the prompt validator's slot in the pipeline.
DecorationAgents == {"decorator_descriptor", "decorator"}

\* In request r's calls, every prompt validation comes after an image
\* validation and before every planning or generation call.
PromptValidationInOrder(r) ==
    \A i \in 1 .. Len(calls[r]) :
        calls[r][i].agent = "validate_text"
            => /\ \E j \in 1 .. i - 1 : calls[r][j].agent = "validate_image"
               /\ \A j \in 1 .. i - 1 : calls[r][j].agent \notin DecorationAgents

\* C3 as stated: a finished request has invoked the prompt validator if and
\* only if it carries a non-empty prompt, and in the stated order.
C3_PromptValidatedIffPrompt ==
    \A r \in Requests :
        /\ Done(r) => (Called(r, "validate_text") <=> Truthy(prompt[r]))
        /\ PromptValidationInOrder(r)

\* C3 amended: the prompt validator is invoked only for a non-empty prompt,
\* and is invoked for every non-empty prompt once the image-validation call
\* has returned its verdict; the order is as stated.
C3_PromptValidatedWhenReached ==
    \A r \in Requests :
        /\ Called(r, "validate_text") => Truthy(prompt[r])
        /\ Truthy(prompt[r]) /\ image_validation_result[r] # None
               /\ pc[r] # "validate_text"
            => Called(r, "validate_text")
        /\ PromptValidationInOrder(r)

\* C3's case: a request with a prompt has run the image validator, the
\* prompt validator and the planner, and has answered.
C3_Witness ==
    \E r \in Requests :
        /\ Done(r)
        /\ Truthy(prompt[r])
        /\ response[r].status = 200
        /\ Len(calls[r]) = 3
        /\ calls[r][2].agent = "validate_text"

\* C4: after a FAIL verdict of either gate no further agent is invoked and
\* the request ends in a client error.
C4_FailShortCircuits ==
    \A r \in Requests :
        /\ ImageVerdictFails(r)
            => /\ Len(calls[r]) = 1
               /\ Done(r) => response[r].status = 400
        /\ TextVerdictFails(r)
            => /\ calls[r][Len(calls[r])].agent = "validate_text"
               /\ Done(r) => response[r].status = 400

\* The decision the pipeline took at the image gate of request r: FAIL when
\* the request was rejected there, PASS otherwise.
ImageGateDecision(r) ==
    IF Done(r) /\ response[r].status = 400 /\ Len(calls[r]) = 1
    THEN "FAIL" ELSE "PASS"

\* The decision the pipeline took at the prompt gate of request r.
TextGateDecision(r) ==
    IF Done(r) /\ response[r].status = 400
          /\ calls[r][Len(calls[r])].agent = "validate_text"
    THEN "FAIL" ELSE "PASS"

\* The rule's decision for a verdict text.
RuleDecision(text) == IF VerdictFails(text) THEN "FAIL" ELSE "PASS"

\* C5: for every verdict a gate has received, the pipeline's decision at that
\* gate is the rule's decision for the verdict text.
C5_GateFollowsRule ==
    \A r \in Requests :
        /\ image_validation_result[r] # None
            => ImageGateDecision(r) = RuleDecision(image_validation_result[r])
        /\ text_validation_result[r] # None
            => TextGateDecision(r) = RuleDecision(text_validation_result[r])

\* The content blocks of a generation result; a plain string has none.
ContentBlocks(result) ==
    IF result = <<>> \/ result = None THEN <<>> ELSE result.content

\* The first base64 image MediaBlock of a block sequence, or None.
FirstBase64Image(blocks) ==
    LET hits == {i \in 1 .. Len(blocks) :
                    /\ blocks[i].type = "media"
                    /\ blocks[i].media_type = "image"
                    /\ blocks[i].source_type = "base64"}
    IN  IF hits = {} THEN None
        ELSE blocks[CHOOSE i \in hits : \A j \in hits : i <= j].source

\* The text of a generation result: its first TextBlock, or the empty text.
ResultText(blocks) ==
    LET hits == {i \in 1 .. Len(blocks) : blocks[i].type = "text"}
    IN  IF hits = {} THEN <<>>
        ELSE blocks[CHOOSE i \in hits : \A j \in hits : i <= j].content

\* The fixed explanation of the fallback.
UnableToGenerate == <<"unable to generate">>

\* C6: a successful response carries the first base64 image block of the
\* generation result; without one it carries the base64 of the uploaded
\* bytes, and the explanation is the result's text, or the fixed message
\* when that text is empty.
C6_ExtractOrFallback ==
    \A r \in Requests :
        Done(r) /\ response[r].status = 200
            => LET blocks == ContentBlocks(generation_result[r])
                   found == FirstBase64Image(blocks)
               IN  IF found # None
                   THEN response[r].image_base64 = found
                   ELSE /\ response[r].image_base64 = B64Encode(UploadBytes(r))
                        /\ response[r].explanation =
                              IF ResultText(blocks) # <<>> THEN ResultText(blocks)
                              ELSE UnableToGenerate

\* C7: a successful request has invoked the decorator agent exactly once,
\* with a reference to its stored image, after the validation calls.
C7_DecoratorCalledOnce ==
    \A r \in Requests :
        Done(r) /\ response[r].status = 200
            => /\ CallCount(r, "decorator") = 1
               /\ \A i \in 1 .. Len(calls[r]) :
                     calls[r][i].agent = "decorator"
                         => /\ calls[r][i].source = file_path[r]
                            /\ \E j \in 1 .. i - 1 :
                                  calls[r][j].agent = "validate_image"

\* C8: an exception whose text carries a rate-limit or quota marker is
\* reported with status 429, whichever step raised it.
C8_RateLimitIs429 ==
    \A r \in Requests :
        Done(r) /\ raised[r].kind = "Exception" /\ RateLimited(raised[r].text)
            => response[r].status = 429


(***************************************************************************)
(* The registry's API on its own (services/agents.py): one AgentService    *)
(* object, built either directly (AgentService(), then initialize()) or    *)
(* as the singleton of get_agent_service(), and called by any code of the  *)
(* process.  The calls are synchronous, so each is one step.  The object   *)
(* uses the default configurations.                                        *)
(***************************************************************************)
\* Most client and agent objects the API's callers make the registry build.
MaxConstructed == 14

\* DEFAULT_CLIENTS in the order _create_clients walks it.
ClientOrder == <<"text", "vlm", "diffusion">>

\* The order in which _create_agents builds the agents.
AgentOrder == <<"validate_image", "validate_text", "decorator_descriptor", "decorator">>

\* The constructor calls of one complete initialize().
ConstructorCalls == Len(ClientOrder) + Len(AgentOrder)

\* The keys callers pass to get_agent and get_client: the registered ones and
\* one that is not registered.
AgentKeyArguments == AgentKeys \cup {"unknown"}

ClientKeyArguments == ClientKeys \cup {"unknown"}

\* An API call, how it ended, what it returned and how many client and agent
\* objects it built.
ApiCall(op, key, outcome, value, built) ==
    [op |-> op, key |-> key, outcome |-> outcome, value |-> value, built |-> built]

\* An initialize() that has no guard against running twice.
InitializeAlwaysRuns == FALSE

\* initialize(): "if self._initialized: return"
InitializeIsNoOp == initialized

\* The body of initialize() when k of its constructor calls complete: the
\* first k entries of _clients and _agents are (re)assigned, and
\* _initialized is set only after the last one.
InitializeRuns(k) ==
    LET nc == IF k < Len(ClientOrder) THEN k ELSE Len(ClientOrder)
        na == k - nc
        built == {AgentOrder[i] : i \in 1 .. na}
    IN  /\ clients' = clients \cup {ClientOrder[i] : i \in 1 .. nc}
        /\ agents' = {a \in agents : a[1] \notin built}
                        \cup {<<key, AgentClient(key)>> : key \in built}
        /\ constructed' = constructed + k
        /\ initialized' = (k = ConstructorCalls)

\* How an initialize() that completes k constructor calls ends.
InitializeOutcome(k) == IF k = ConstructorCalls THEN "returned" ELSE "raised"

\* service = AgentService()
SvcConstruct ==
    /\ instances = 0
    /\ instances' = 1
    /\ api_call' = ApiCall("AgentService", "", "returned", <<>>, 0)
    /\ UNCHANGED <<default_service, initialized, clients, agents, constructed>>
    /\ UNCHANGED <<reqVars, files>>

\* service.initialize()
SvcInitialize ==
    /\ instances > 0
    /\ UNCHANGED <<default_service, instances, reqVars, files>>
    /\ IF InitializeIsNoOp
       THEN /\ api_call' = ApiCall("initialize", "", "returned", <<>>, 0)
            /\ UNCHANGED <<initialized, clients, agents, constructed>>
       ELSE \E k \in 0 .. ConstructorCalls :
                /\ constructed + k <= MaxConstructed
                /\ InitializeRuns(k)
                /\ api_call' = ApiCall("initialize", "", InitializeOutcome(k), <<>>, k)

\* service.get_agent(key), also behind the four shortcut properties.
SvcGetAgent(key) ==
    /\ instances > 0
    /\ UNCHANGED <<default_service, initialized, clients, agents, instances,
                   constructed, reqVars, files>>
    /\ api_call' =
          IF GetAgentRaises
          THEN ApiCall("get_agent", key, "RuntimeError", <<>>, 0)
          ELSE IF \E a \in agents : a[1] = key
               THEN ApiCall("get_agent", key, "returned",
                            CHOOSE a \in agents : a[1] = key, 0)
               ELSE ApiCall("get_agent", key, "KeyError", <<>>, 0)

\* service.get_client(key)
SvcGetClient(key) ==
    /\ instances > 0
    /\ UNCHANGED <<default_service, initialized, clients, agents, instances,
                   constructed, reqVars, files>>
    /\ api_call' =
          IF GetAgentRaises
          THEN ApiCall("get_client", key, "RuntimeError", <<>>, 0)
          ELSE IF key \in clients
               THEN ApiCall("get_client", key, "returned", <<key>>, 0)
               ELSE ApiCall("get_client", key, "KeyError", <<>>, 0)

\* get_agent_service(), called while the object is the singleton or while no
\* AgentService exists yet.
SvcGetAgentService ==
    /\ instances = 0 \/ default_service
    /\ UNCHANGED <<reqVars, files>>
    /\ IF default_service
       THEN /\ api_call' = ApiCall("get_agent_service", "", "returned", <<>>, 0)
            /\ UNCHANGED <<default_service, initialized, clients, agents,
                           instances, constructed>>
       ELSE /\ default_service' = TRUE
            /\ instances' = instances + 1
            /\ \E k \in 0 .. ConstructorCalls :
                  /\ constructed + k <= MaxConstructed
                  /\ InitializeRuns(k)
                  /\ api_call' = ApiCall("get_agent_service", "",
                                         InitializeOutcome(k), <<>>, k)

ServiceNext ==
    \/ SvcConstruct
    \/ SvcInitialize
    \/ \E key \in AgentKeyArguments : SvcGetAgent(key)
    \/ \E key \in ClientKeyArguments : SvcGetClient(key)
    \/ SvcGetAgentService

ServiceSpec == Init /\ [][ServiceNext]_vars

\* The last step was a call of get_agent or get_client.
LookupStep ==
    api_call' # api_call /\ api_call'.op \in {"get_agent", "get_client"}

\* C11: on an AgentService whose initialize() has not completed, every
\* get_agent and get_client call raises RuntimeError and returns nothing;
\* once initialize() has completed, get_agent returns, for each of the four
\* roles, the agent registered for it.
C11_LookupNeedsInitialize ==
    [][LookupStep
          => /\ ~initialized
                  => /\ api_call'.outcome = "RuntimeError"
                     /\ api_call'.value = <<>>
             /\ initialized /\ api_call'.op = "get_agent"
                    /\ api_call'.key \in AgentKeys
                  => /\ api_call'.outcome = "returned"
                     /\ api_call'.value =
                           <<api_call'.key, AgentClient(api_call'.key)>>]_vars

\* C11's case: get_agent has raised RuntimeError on an object whose
\* initialize() failed after it had registered the agent asked for.
C11_Witness ==
    /\ ~initialized
    /\ api_call.op = "get_agent"
    /\ api_call.outcome = "RuntimeError"
    /\ \E a \in agents : a[1] = api_call.key


\* The steps of decorate_image during which the stored image is in use.
UsingFile == {"get_service", "validate_image", "validate_text", "plan", "generate"}

\* C12: under every interleaving of the requests, each request's path is its
\* own, its agent calls reference that path, the file it uses exists and
\* holds its own upload until its own cleanup, the image it returns is its
\* own, and every file of the uploads directory belongs to a running request.
C12_OwnFileOnly ==
    /\ \A r \in Requests :
          /\ \A q \in Requests \ {r} :
                file_path[r] # None => file_path[q] # file_path[r]
          /\ \A i \in 1 .. Len(calls[r]) : calls[r][i].source = file_path[r]
          /\ pc[r] = "read" => files \cap {<<file_path[r], <<>>>>} # {}
          /\ pc[r] \in UsingFile
                => /\ Exists(files, file_path[r])
                   /\ ReadFile(files, file_path[r]) = UploadBytes(r)
          /\ Done(r) /\ response[r].status = 200
                => response[r].image_base64 = B64Encode(UploadBytes(r))
    /\ \A f \in files : \E r \in Requests : f[1] = file_path[r] /\ ~Done(r)

\* C12's case: one request has answered and removed its file while another,
\* which has already called an agent, still uses its own.
C12_Witness ==
    \E r \in Requests, q \in Requests :
        /\ r # q
        /\ Done(r)
        /\ response[r].status = 200
        /\ pc[q] \in UsingFile
        /\ Len(calls[q]) > 0
        /\ TempFileExists(q)

\* The fixed order of the pipeline's model calls.
PipelineOrder ==
    <<"validate_image", "validate_text", "decorator_descriptor", "decorator">>

\* The place of an agent in the pipeline.
PipelineRank(key) == CHOOSE i \in 1 .. Len(PipelineOrder) : PipelineOrder[i] = key

\* The calls are in pipeline order, each agent at most once.
InPipelineOrder(cs) ==
    \A i \in 1 .. Len(cs), j \in 1 .. Len(cs) :
        i < j => PipelineRank(cs[i].agent) < PipelineRank(cs[j].agent)

\* C13: a request's model calls are made one at a time in the fixed order
\* image validator, prompt validator, planning/generation; no agent is
\* invoked twice; once a step of the request has raised, the request is over
\* and makes no further call.
C13_SequentialNoRetry ==
    [][\A r \in Requests :
          /\ InPipelineOrder(calls'[r])
          /\ Len(calls[r]) <= Len(calls'[r])
          /\ Len(calls'[r]) <= Len(calls[r]) + 1
          /\ SubSeq(calls'[r], 1, Len(calls[r])) = calls[r]
          /\ raised[r].kind # "none" => calls'[r] = calls[r]
          /\ raised'[r].kind # "none" => pc'[r] = "done"]_vars

\* C13's case: the prompt validator's call raised after the image validator
\* had answered, and the request ended without a planning call.
C13_Witness ==
    \E r \in Requests :
        /\ Done(r)
        /\ raised[r].kind = "Exception"
        /\ Len(calls[r]) = 2
        /\ calls[r][2].agent = "validate_text"
        /\ image_validation_result[r] # None


\* A step that is a call of the registry's API.
ApiStep == api_call' # api_call

\* C14: once initialize() has completed, no step changes the client map or
\* the agent map or constructs anything; a further initialize() returns
\* without building; get_agent returns the agent the map holds for the role;
\* get_agent_service() returns the existing singleton, still initialized,
\* and creates no other instance.
C14_FrozenAfterInitialize ==
    [][initialized
          => /\ initialized'
             /\ clients' = clients
             /\ agents' = agents
             /\ constructed' = constructed
             /\ instances' = instances
             /\ default_service' = default_service
             /\ ApiStep /\ api_call'.op \in {"initialize", "get_agent_service"}
                   => /\ api_call'.outcome = "returned"
                      /\ api_call'.built = 0
             /\ ApiStep /\ api_call'.op = "get_agent" /\ api_call'.key \in AgentKeys
                   => /\ api_call'.outcome = "returned"
                      /\ api_call'.value \in agents
                      /\ api_call'.value[1] = api_call'.key]_vars

\* C14's case: the singleton is initialized and a further initialize() has
\* just returned.
C14_Witness ==
    /\ initialized
    /\ default_service
    /\ constructed = ConstructorCalls
    /\ api_call.op = "initialize"
    /\ api_call.outcome = "returned"
    /\ api_call.built = 0

====
